---- MODULE Spec2Model ----
(***************************************************************************)
(* Invite-email delivery worker of capmatch-comms                          *)
(* (services/invite-email: main.py, email_sender.py,                       *)
(* invite_email_builder.py, config.py).                                    *)
(*                                                                         *)
(* The store's invites table is shared; every worker is one running        *)
(* instance of main.py's daemon loop.  A worker's steps are cut at the     *)
(* calls that touch what it shares with the rest of the world: the store   *)
(* query, the provider call (with the sleep that precedes it), the store   *)
(* update and the reads of the shutdown flag.  A test of the flag and the  *)
(* start of what it guards (a cycle, an invite, a sleep slice) are one     *)
(* step: a signal delivered after the test is seen as delivered while the  *)
(* guarded work is in progress.  Locals are cleared when the function that *)
(* owns them returns.  Upstream actors change an invite's status; the      *)
(* operating system delivers SIGTERM/SIGINT.                               *)
(*                                                                         *)
(* Spec is the store with two daemon processes and a bounded number of     *)
(* poll cycles; FairSpec is one daemon running without that bound, with    *)
(* fairness; SpecRecipient, SpecDigest and SpecEmpty are the Sender's      *)
(* recipient resolution, the digest builder of services/email-digest, and  *)
(* both programs on empty input; SpecLookup is one daemon whose name       *)
(* queries meet every case; SpecWebhook is the signed endpoint of the      *)
(* design document (section 4.4), which has no code in this repository.    *)
(***************************************************************************)
EXTENDS Integers, Sequences, FiniteSets, TLC

\* ------------------------------------------------------------------ bounds
MaxCycles == 2        \* poll cycles started, all workers together
MaxEvents == 3        \* events handed to build_digest_email
PollInterval == 6     \* Config.POLL_INTERVAL_SECONDS of the modelled run

\* ------------------------------------------------------- program constants
MAX_RETRIES == 3      \* email_sender.py:21
THROTTLE_DELAY == 1   \* email_sender.py:23, in units of 1/2 second
SLEEP_CHUNK == 5      \* main.py:288, seconds

Workers == {"w1", "w2"}
Items == {"a", "b"}

None == "None"
NoItem == "-"
Responses == {"id", "emptyid", "noid", "ratelimit", "error"}

VARIABLES
    status,             \* invites.status, per invite
    email_sent_at,      \* invites.email_sent_at is non-null, per invite
    DRY_RUN,            \* Config.INVITE_EMAIL_DRY_RUN
    API_KEY,            \* Config.RESEND_API_KEY is set
    TEMPLATE_HTML,      \* invite_email_builder.TEMPLATE_HTML, loaded at import
    pc,                 \* per worker: position in main()
    shutdown_requested, \* per worker process: the module-level flag
    cycle_count,        \* per worker: main()'s cycle_count
    invites,            \* per worker: the batch of process_pending_invites
    idx,                \* per worker: position of the for loop in the batch
    processed,          \* per worker: processed of the current batch
    failed,             \* per worker: failed of the current batch
    bodies,             \* per worker: <<html_body, text_body>> of process_invite
    success,            \* per worker: success of process_invite
    attempt,            \* per worker: attempt of _send_with_throttle_retry
    sleep_remaining,    \* per worker: sleep_remaining of main()
    call,               \* per worker: history of the current Sender call
    hist,               \* per invite: history counters
    RESEND_FORCE_TO_EMAIL,  \* Config.RESEND_FORCE_TO_EMAIL
    RESEND_TEST_MODE,       \* Config.RESEND_TEST_MODE
    RESEND_TEST_RECIPIENT,  \* Config.RESEND_TEST_RECIPIENT
    user_email,         \* send_invite_email's argument, None before a call
    to_address,         \* send_invite_email's to_address, None before a call
    DIGEST_TEMPLATE,    \* email_builder.TEMPLATE_HTML, loaded at import
    events,             \* build_digest_email's argument
    digest,             \* what build_digest_email returned, NotBuilt before
    orgs,               \* what the orgs query of fetch_org_name meets
    profiles,           \* what the profiles query of fetch_inviter_name meets
    WEBHOOK_SECRET,     \* the shared secret configured for the endpoint
    request,            \* the request the signed endpoint received
    hook                \* the signed endpoint's handling of the request

vars == <<status, email_sent_at, DRY_RUN, API_KEY, TEMPLATE_HTML, pc,
          shutdown_requested, cycle_count, invites, idx, processed, failed,
          bodies, success, attempt, sleep_remaining, call, hist,
          RESEND_FORCE_TO_EMAIL, RESEND_TEST_MODE, RESEND_TEST_RECIPIENT,
          user_email, to_address, DIGEST_TEMPLATE, events, digest,
          orgs, profiles, WEBHOOK_SECRET, request, hook>>

config == <<DRY_RUN, API_KEY, TEMPLATE_HTML>>
store == <<status, email_sent_at>>
mainVars == <<cycle_count, sleep_remaining>>
batchVars == <<invites, idx, processed, failed>>
inviteVars == <<bodies, success, attempt, call>>
recipientVars == <<RESEND_FORCE_TO_EMAIL, RESEND_TEST_MODE,
                   RESEND_TEST_RECIPIENT, user_email, to_address>>
digestVars == <<DIGEST_TEMPLATE, events, digest>>
names == <<orgs, profiles>>
hookVars == <<WEBHOOK_SECRET, request, hook>>
\* what the daemon loop never writes
apart == <<recipientVars, digestVars, names, hookVars>>

\* ----------------------------------------------------------------- helpers
Min(a, b) == IF a < b THEN a ELSE b

\* every sequence that lists the elements of S once each
Orderings(S) ==
    {s \in [1..Cardinality(S) -> S] : \A x \in S : \E k \in DOMAIN s : s[k] = x}

\* Python truthiness of an Optional[str]
Falsy(x) == x = None \/ x = ""

NewCall == [provider |-> 0, sleeps |-> 0, slept |-> 0, last |-> None]

\* the locals of process_invite and of the Sender, cleared
ClearInvite(w) ==
    /\ bodies' = [bodies EXCEPT ![w] = <<None, None>>]
    /\ success' = [success EXCEPT ![w] = FALSE]
    /\ attempt' = [attempt EXCEPT ![w] = 0]
    /\ call' = [call EXCEPT ![w] = NewCall]

\* the locals of process_pending_invites, cleared
ClearBatch(w) ==
    /\ invites' = [invites EXCEPT ![w] = <<>>]
    /\ idx' = [idx EXCEPT ![w] = 1]
    /\ processed' = [processed EXCEPT ![w] = 0]
    /\ failed' = [failed EXCEPT ![w] = 0]

RECURSIVE Sum(_, _)
Sum(f, S) == IF S = {} THEN 0
             ELSE LET x == CHOOSE y \in S : TRUE IN f[x] + Sum(f, S \ {x})

CyclesStarted == Sum(cycle_count, Workers)

\* the invite the worker's for loop is at
Cur(w) == IF idx[w] \in 1..Len(invites[w]) THEN invites[w][idx[w]] ELSE NoItem

\* ------------------------------------------------------- pure program code
\* main.get_pending_invites: status = 'pending' AND email_sent_at IS NULL
GetPendingInvites ==
    {i \in Items : status[i] = "pending" /\ ~email_sent_at[i]}

\* what a name query can meet: a row with a name, a row whose name is
\* null, no row, an error of the store; "absent": the invite carries no id
\* to look up
Lookups == {"found", "noname", "notfound", "error", "absent"}

\* main.process_invite: invite.get("org_id"), invite.get("invited_by")
IdOf(lookup) == IF lookup = "absent" THEN None ELSE "id-1"

\* main.fetch_org_name: the name of the row if response.data; None when
\* there is no row and, through except Exception, when the query raises
FetchOrgName(lookup) ==
    CASE lookup = "found" -> "Acme"
      [] lookup = "noname" -> None
      [] lookup = "notfound" -> None
      [] lookup = "error" -> None

\* main.fetch_inviter_name: as fetch_org_name, on profiles.full_name
FetchInviterName(lookup) ==
    CASE lookup = "found" -> "Ann Lee"
      [] lookup = "noname" -> None
      [] lookup = "notfound" -> None
      [] lookup = "error" -> None

\* main.process_invite: org_name = fetch_org_name(sb, org_id) if org_id
\* else None
OrgName(lookup) ==
    IF Falsy(IdOf(lookup)) THEN None ELSE FetchOrgName(lookup)

\* main.process_invite: inviter_name = fetch_inviter_name(sb, inviter_id)
\* if inviter_id else None
InviterName(lookup) ==
    IF Falsy(IdOf(lookup)) THEN None ELSE FetchInviterName(lookup)

\* variant: the name is used as it came
Display_NoFallback(name, fallback) == name

\* invite_email_builder.build_invite_email: name or "fallback"
Display(name, fallback) == IF Falsy(name) THEN fallback ELSE name

\* invite_email_builder.build_invite_email: the text lines, and the
\* template with its placeholders replaced, that name the organization
\* and the inviter
TextBody(display_org, inviter) ==
    "join " \o display_org \o " by " \o inviter

HtmlBody(template, display_org, inviter) ==
    template \o display_org \o "/" \o inviter

\* invite_email_builder.build_invite_email
BuildInviteEmail(template, org_name, invited_by_name) ==
    LET display_org == Display(org_name, "CapMatch")
        inviter == Display(invited_by_name, "a member of your team")
    IN IF Falsy(template)
       THEN <<None, None>>
       ELSE <<HtmlBody(template, display_org, inviter),
              TextBody(display_org, inviter)>>

\* variant: the bodies are compared with the empty string only
RenderFailed_EmptyOnly(b) == b[1] = "" \/ b[2] = ""

\* main.process_invite: if not html_body or not text_body
RenderFailed(b) == Falsy(b[1]) \/ Falsy(b[2])

\* variant: the same sleep before every attempt
ThrottleSleep_Flat(n) == THROTTLE_DELAY

\* email_sender._send_with_throttle_retry: the sleep before attempt n
ThrottleSleep(n) == IF n > 1 THEN THROTTLE_DELAY * n ELSE THROTTLE_DELAY

\* variant: the last attempt is taken to be the one before MAX_RETRIES
RateLimitRaises_OffByOne(n) == n = MAX_RETRIES - 1

\* email_sender._send_with_throttle_retry: a rate-limited attempt is re-raised
RateLimitRaises(n) == n = MAX_RETRIES

\* variant: a rate limit is not retried
Retryable_Never(resp) == FALSE

\* variant: any provider error is retried like a rate limit
Retryable_AnyError(resp) == resp \in {"ratelimit", "error"}

\* email_sender._send_with_throttle_retry: except RateLimitError goes on
\* with the loop, except ResendError re-raises
Retryable(resp) == resp = "ratelimit"

\* variant: every answer that is not an exception counts as sent
Accepted_AnyAnswer(resp) == resp \in {"id", "emptyid", "noid"}

\* email_sender._send_with_throttle_retry and send_invite_email: what the
\* Sender returns after the provider's last answer; an id that is not None
\* gives True, a ResendError (rate limit included) is caught and gives False
Accepted(resp) == resp \in {"id", "emptyid"}

\* variant: a failed update is reported as a failure
CommitFailedResult_False == FALSE

\* main.process_invite: the return value when the email_sent_at update raised
CommitFailedResult == TRUE

\* variant: the dry-run setting is not looked at
DryRun_Ignored == FALSE

\* email_sender.send_invite_email: if Config.INVITE_EMAIL_DRY_RUN
DryRun == DRY_RUN

\* variant: the for loop does not look at the flag
BreakRequested_Never(w) == FALSE

\* main.process_pending_invites: if shutdown_requested: break
BreakRequested(w) == shutdown_requested[w]

\* history counters and cycle_count stop counting at the bound
Inc(n) == IF n < MaxCycles THEN n + 1 ELSE n

\* variant: the Sender's result is not looked at
SendFailed_Ignored(ok) == FALSE

\* main.process_invite: if not success: return False
SendFailed(ok) == ~ok

\* ------------------------------------------------------------------- Init
\* an Optional[str] body of the digest: None, or the sections put into it
NoBody == [none |-> TRUE, sections |-> <<>>]
Body(sections) == [none |-> FALSE, sections |-> sections]

\* build_digest_email not called yet, and what it returned
NotBuilt == [returned |-> FALSE, html_body |-> NoBody, text_body |-> NoBody]
Returned(html, text) == [returned |-> TRUE, html_body |-> html, text_body |-> text]

\* invites that were just created: pending, no email sent
StoreStart ==
    /\ status = [i \in Items |-> "pending"]
    /\ email_sent_at = [i \in Items |-> FALSE]

\* the daemon processes when main() enters its loop
ProcessStart ==
    /\ pc = [w \in Workers |-> "loop"]
    /\ shutdown_requested = [w \in Workers |-> FALSE]
    /\ cycle_count = [w \in Workers |-> 0]
    /\ invites = [w \in Workers |-> <<>>]
    /\ idx = [w \in Workers |-> 1]
    /\ processed = [w \in Workers |-> 0]
    /\ failed = [w \in Workers |-> 0]
    /\ bodies = [w \in Workers |-> <<None, None>>]
    /\ success = [w \in Workers |-> FALSE]
    /\ attempt = [w \in Workers |-> 0]
    /\ sleep_remaining = [w \in Workers |-> 0]
    /\ call = [w \in Workers |-> NewCall]

\* nothing has happened to any invite
NoHistory ==
    hist = [i \in Items |-> [accepted |-> 0, commits |-> 0, anomalies |-> 0]]

\* the store and the daemon processes at the start of a run
DaemonStart == StoreStart /\ NoHistory /\ ProcessStart

\* the recipient settings of a production run, no send_invite_email call
\* looked at
RecipientIdle ==
    /\ RESEND_FORCE_TO_EMAIL = None
    /\ RESEND_TEST_MODE = FALSE
    /\ RESEND_TEST_RECIPIENT = None
    /\ user_email = None
    /\ to_address = None

\* every invite names an organization and an inviter whose rows carry a
\* name
NamesFound ==
    /\ orgs = "found"
    /\ profiles = "found"

\* no signed endpoint is served
NoRequest == [raw_body |-> None, timestamp_header |-> None,
              signature_header |-> <<>>]
NotReceived == [pc |-> "idle", response |-> None, item |-> NoItem,
                offered |-> 0, sends |-> 0, writes |-> 0]
HookIdle ==
    /\ WEBHOOK_SECRET = None
    /\ request = NoRequest
    /\ hook = NotReceived

\* the digest builder not called
DigestIdle ==
    /\ DIGEST_TEMPLATE = "<html>"
    /\ events = <<>>
    /\ digest = NotBuilt

Init ==
    /\ DaemonStart
    /\ DRY_RUN \in BOOLEAN
    /\ API_KEY \in BOOLEAN
    /\ TEMPLATE_HTML \in {"", "<html>"}
    /\ RecipientIdle
    /\ DigestIdle
    /\ NamesFound
    /\ HookIdle

\* ------------------------------------------------------ steps of a worker
\* variant: a failed invite is tried again at once, in the same cycle
Return_RetryFailed(w, ret) ==
    /\ processed' = [processed EXCEPT ![w] = IF ret THEN @ + 1 ELSE @]
    /\ failed' = [failed EXCEPT ![w] = IF ret THEN @ ELSE @ + 1]
    /\ idx' = [idx EXCEPT ![w] = IF ret THEN @ + 1 ELSE @]
    /\ invites' = invites
    /\ pc' = [pc EXCEPT ![w] = "item"]
    /\ ClearInvite(w)

\* main.process_pending_invites: the for loop's body after process_invite
\* returned ret (processed += 1 / failed += 1), then the next iteration
Return(w, ret) ==
    /\ processed' = [processed EXCEPT ![w] = IF ret THEN @ + 1 ELSE @]
    /\ failed' = [failed EXCEPT ![w] = IF ret THEN @ ELSE @ + 1]
    /\ idx' = [idx EXCEPT ![w] = @ + 1]
    /\ invites' = invites
    /\ pc' = [pc EXCEPT ![w] = "item"]
    /\ ClearInvite(w)

\* variant: an exception of process_invite leaves the for loop
OnException_Propagates(w) ==
    /\ pc' = [pc EXCEPT ![w] = "aftercycle"]
    /\ UNCHANGED batchVars
    /\ ClearInvite(w)

\* main.process_pending_invites: except Exception: failed += 1, then the
\* next iteration
OnException(w) == Return(w, FALSE)

\* email_sender.send_invite_email returns ok to process_invite
SenderReturns(w, ok) ==
    /\ success' = [success EXCEPT ![w] = ok]
    /\ pc' = [pc EXCEPT ![w] = "aftersend"]
    /\ hist' = [hist EXCEPT ![Cur(w)].accepted = IF ok THEN Inc(@) ELSE @]
    /\ UNCHANGED batchVars

\* main.main: while not shutdown_requested; cycle_count += 1;
\* process_pending_invites: invites = get_pending_invites(sb)
Cycle(w) ==
    /\ pc[w] = "loop"
    /\ ~shutdown_requested[w]
    /\ \E s \in Orderings(GetPendingInvites) :
         /\ invites' = [invites EXCEPT ![w] = s]
         /\ pc' = [pc EXCEPT ![w] = IF s = <<>> THEN "aftercycle" ELSE "item"]
    /\ cycle_count' = [cycle_count EXCEPT ![w] = Inc(@)]
    /\ idx' = [idx EXCEPT ![w] = 1]
    /\ processed' = [processed EXCEPT ![w] = 0]
    /\ failed' = [failed EXCEPT ![w] = 0]
    /\ UNCHANGED <<store, config, apart, shutdown_requested, sleep_remaining,
                   inviteVars, hist>>

\* variant: the exception of the store query ends main()
CycleError_Fatal(w) ==
    /\ pc[w] = "loop"
    /\ ~shutdown_requested[w]
    /\ cycle_count' = [cycle_count EXCEPT ![w] = Inc(@)]
    /\ pc' = [pc EXCEPT ![w] = "exit"]
    /\ UNCHANGED <<store, config, apart, shutdown_requested, sleep_remaining,
                   batchVars, inviteVars, hist>>

\* main.main: the store query raises; except Exception around the cycle
CycleError(w) ==
    /\ pc[w] = "loop"
    /\ ~shutdown_requested[w]
    /\ cycle_count' = [cycle_count EXCEPT ![w] = Inc(@)]
    /\ pc' = [pc EXCEPT ![w] = "aftercycle"]
    /\ UNCHANGED <<store, config, apart, shutdown_requested, sleep_remaining,
                   batchVars, inviteVars, hist>>

\* a poll cycle, while the cycles of the run are within the bound
PollFetch(w) == CyclesStarted < MaxCycles /\ Cycle(w)

\* a poll cycle whose store query raises, within the bound
PollFetchError(w) == CyclesStarted < MaxCycles /\ CycleError(w)

\* main.main: while not shutdown_requested (the flag is set)
LoopExit(w) ==
    /\ pc[w] = "loop"
    /\ shutdown_requested[w]
    /\ pc' = [pc EXCEPT ![w] = "exit"]
    /\ UNCHANGED <<store, config, apart, shutdown_requested, mainVars, batchVars,
                   inviteVars, hist>>

\* main.process_pending_invites: the for loop ends, or breaks on shutdown
BatchEnd(w) ==
    /\ pc[w] = "item"
    /\ idx[w] > Len(invites[w]) \/ BreakRequested(w)
    /\ pc' = [pc EXCEPT ![w] = "aftercycle"]
    /\ UNCHANGED <<store, config, apart, shutdown_requested, mainVars, batchVars,
                   inviteVars, hist>>

\* main.process_invite up to the return of build_invite_email
StartInvite(w) ==
    /\ pc[w] = "item"
    /\ idx[w] <= Len(invites[w])
    /\ ~BreakRequested(w)
    /\ bodies' = [bodies EXCEPT ![w] =
                     BuildInviteEmail(TEMPLATE_HTML, OrgName(orgs),
                                      InviterName(profiles))]
    /\ pc' = [pc EXCEPT ![w] = "rendered"]
    /\ UNCHANGED <<store, config, apart, shutdown_requested, mainVars, batchVars,
                   success, attempt, call, hist>>

\* main.process_invite raises before the email is built (a row whose
\* expires_at is not a string, a null invited_email): the for loop's except
InviteRaises(w) ==
    /\ pc[w] = "item"
    /\ idx[w] <= Len(invites[w])
    /\ ~BreakRequested(w)
    /\ OnException(w)
    /\ UNCHANGED <<store, config, apart, shutdown_requested, mainVars, hist>>

\* main.process_invite: the email could not be built, return False
RenderFail(w) ==
    /\ pc[w] = "rendered"
    /\ RenderFailed(bodies[w])
    /\ Return(w, FALSE)
    /\ UNCHANGED <<store, config, apart, shutdown_requested, mainVars, hist>>

\* main.process_invite calls send_invite_email, which runs up to its first
\* attempt: the dry run returns True, _ensure_resend_api_key may raise
StartSend(w) ==
    /\ pc[w] = "rendered"
    /\ ~RenderFailed(bodies[w])
    /\ IF DryRun
       THEN /\ SenderReturns(w, TRUE)
            /\ UNCHANGED attempt
       ELSE IF ~API_KEY
       THEN /\ SenderReturns(w, FALSE)
            /\ UNCHANGED attempt
       ELSE /\ attempt' = [attempt EXCEPT ![w] = 1]
            /\ pc' = [pc EXCEPT ![w] = "send"]
            /\ UNCHANGED <<success, batchVars, hist>>
    /\ UNCHANGED <<store, config, apart, shutdown_requested, mainVars, bodies, call>>

\* email_sender._send_with_throttle_retry: one iteration of the for loop,
\* time.sleep, then resend.Emails.send and what follows its answer
AttemptWith(w, resp) ==
    /\ pc[w] = "send"
    /\ LET d == ThrottleSleep(attempt[w])
       IN /\ call' = [call EXCEPT ![w].sleeps = @ + (IF d > 0 THEN 1 ELSE 0),
                                  ![w].slept = @ + d,
                                  ![w].provider = @ + 1,
                                  ![w].last = resp]
          /\ IF Retryable(resp) /\ ~RateLimitRaises(attempt[w])
                /\ attempt[w] < MAX_RETRIES
             THEN /\ attempt' = [attempt EXCEPT ![w] = @ + 1]
                  /\ UNCHANGED <<pc, success, batchVars, hist>>
             ELSE /\ SenderReturns(w, Accepted(resp))
                  /\ UNCHANGED attempt
    /\ UNCHANGED <<store, config, apart, shutdown_requested, mainVars, bodies>>

\* the provider gives one of its answers to the attempt
Attempt(w) == \E resp \in Responses : AttemptWith(w, resp)

\* main.process_invite: if not success: return False
SendFail(w) ==
    /\ pc[w] = "aftersend"
    /\ SendFailed(success[w])
    /\ Return(w, FALSE)
    /\ UNCHANGED <<store, config, apart, shutdown_requested, mainVars, hist>>

\* main.process_invite: the send succeeded, on to the store update
SendOk(w) ==
    /\ pc[w] = "aftersend"
    /\ ~SendFailed(success[w])
    /\ pc' = [pc EXCEPT ![w] = "commit"]
    /\ UNCHANGED <<store, config, apart, shutdown_requested, mainVars, batchVars,
                   inviteVars, hist>>

\* main.process_invite: the email_sent_at update succeeds
CommitOk(w) ==
    /\ pc[w] = "commit"
    /\ email_sent_at' = [email_sent_at EXCEPT ![Cur(w)] = TRUE]
    /\ hist' = [hist EXCEPT ![Cur(w)].commits = Inc(@)]
    /\ Return(w, TRUE)
    /\ UNCHANGED <<status, config, apart, shutdown_requested, mainVars>>

\* main.process_invite: the email_sent_at update raises
CommitError(w) ==
    /\ pc[w] = "commit"
    /\ hist' = [hist EXCEPT ![Cur(w)].anomalies = Inc(@)]
    /\ Return(w, CommitFailedResult)
    /\ UNCHANGED <<store, config, apart, shutdown_requested, mainVars>>

\* variant: main() returns after its first cycle
AfterCycle_RunsOnce(w) ==
    /\ pc[w] = "aftercycle"
    /\ pc' = [pc EXCEPT ![w] = "exit"]
    /\ UNCHANGED sleep_remaining
    /\ ClearBatch(w)
    /\ UNCHANGED <<store, config, apart, shutdown_requested, cycle_count,
                   inviteVars, hist>>

\* main.main: if shutdown_requested: break; sleep_remaining = poll_interval
AfterCycle(w) ==
    /\ pc[w] = "aftercycle"
    /\ IF shutdown_requested[w]
       THEN /\ pc' = [pc EXCEPT ![w] = "exit"]
            /\ UNCHANGED sleep_remaining
       ELSE /\ pc' = [pc EXCEPT ![w] = "sleep"]
            /\ sleep_remaining' = [sleep_remaining EXCEPT ![w] = PollInterval]
    /\ ClearBatch(w)
    /\ UNCHANGED <<store, config, apart, shutdown_requested, cycle_count,
                   inviteVars, hist>>

\* variant: the sleep loop does not look at the flag
SleepSlice_IgnoresFlag(w) ==
    /\ pc[w] = "sleep"
    /\ sleep_remaining[w] > 0
    /\ pc' = [pc EXCEPT ![w] = "sleeping"]
    /\ UNCHANGED <<store, config, apart, shutdown_requested, mainVars,
                   batchVars, inviteVars, hist>>

\* main.main: the sleep loop's test passes and time.sleep(sleep_chunk) is
\* entered
SleepSlice(w) ==
    /\ pc[w] = "sleep"
    /\ sleep_remaining[w] > 0 /\ ~shutdown_requested[w]
    /\ pc' = [pc EXCEPT ![w] = "sleeping"]
    /\ UNCHANGED <<store, config, apart, shutdown_requested, mainVars,
                   batchVars, inviteVars, hist>>

\* main.main: time.sleep returns, sleep_remaining -= sleep_chunk; when
\* nothing remains the sleep loop is left for the head of the main loop
SliceDone(w) ==
    /\ pc[w] = "sleeping"
    /\ LET left == sleep_remaining[w] - Min(SLEEP_CHUNK, sleep_remaining[w])
       IN /\ sleep_remaining' = [sleep_remaining EXCEPT ![w] = left]
          /\ pc' = [pc EXCEPT ![w] = IF left > 0 THEN "sleep" ELSE "loop"]
    /\ UNCHANGED <<store, config, apart, shutdown_requested, cycle_count,
                   batchVars, inviteVars, hist>>

\* main.main: the sleep loop is left because the flag is set (the local
\* sleep_remaining is dead from here on)
SleepEnd(w) ==
    /\ pc[w] = "sleep"
    /\ ~(sleep_remaining[w] > 0 /\ ~shutdown_requested[w])
    /\ pc' = [pc EXCEPT ![w] = "loop"]
    /\ sleep_remaining' = [sleep_remaining EXCEPT ![w] = 0]
    /\ UNCHANGED <<store, config, apart, shutdown_requested, cycle_count, batchVars,
                   inviteVars, hist>>

\* main.signal_handler
Signal(w) ==
    /\ pc[w] # "exit"
    /\ ~shutdown_requested[w]
    /\ shutdown_requested' = [shutdown_requested EXCEPT ![w] = TRUE]
    /\ UNCHANGED <<store, config, apart, pc, mainVars, batchVars, inviteVars, hist>>

\* an upstream actor accepts (or expires) a pending invite
Upstream(i) ==
    /\ status[i] = "pending"
    /\ status' = [status EXCEPT ![i] = "accepted"]
    /\ UNCHANGED <<email_sent_at, config, apart, pc, shutdown_requested, mainVars,
                   batchVars, inviteVars, hist>>

Next ==
    \/ \E w \in Workers : PollFetch(w)
    \/ \E w \in Workers : PollFetchError(w)
    \/ \E w \in Workers : LoopExit(w)
    \/ \E w \in Workers : BatchEnd(w)
    \/ \E w \in Workers : StartInvite(w)
    \/ \E w \in Workers : InviteRaises(w)
    \/ \E w \in Workers : RenderFail(w)
    \/ \E w \in Workers : StartSend(w)
    \/ \E w \in Workers : Attempt(w)
    \/ \E w \in Workers : SendFail(w)
    \/ \E w \in Workers : SendOk(w)
    \/ \E w \in Workers : CommitOk(w)
    \/ \E w \in Workers : CommitError(w)
    \/ \E w \in Workers : AfterCycle(w)
    \/ \E w \in Workers : SleepSlice(w)
    \/ \E w \in Workers : SliceDone(w)
    \/ \E w \in Workers : SleepEnd(w)
    \/ \E w \in Workers : Signal(w)
    \/ \E i \in Items : Upstream(i)

Spec == Init /\ [][Next]_vars

\* ============================================ one daemon, running for ever
\* the deployment of the repository: a single instance of main.py, with no
\* bound on its poll cycles
Daemon == "w1"

\* a step of the daemon process
DaemonStep ==
    \/ Cycle(Daemon)
    \/ CycleError(Daemon)
    \/ LoopExit(Daemon)
    \/ BatchEnd(Daemon)
    \/ StartInvite(Daemon)
    \/ InviteRaises(Daemon)
    \/ RenderFail(Daemon)
    \/ StartSend(Daemon)
    \/ Attempt(Daemon)
    \/ SendFail(Daemon)
    \/ SendOk(Daemon)
    \/ CommitOk(Daemon)
    \/ CommitError(Daemon)
    \/ AfterCycle(Daemon)
    \/ SleepSlice(Daemon)
    \/ SliceDone(Daemon)
    \/ SleepEnd(Daemon)

NextDaemon ==
    \/ DaemonStep
    \/ Signal(Daemon)
    \/ \E i \in Items : Upstream(i)

\* The process is scheduled and its blocking calls (time.sleep, the store
\* and provider requests) return: weak fairness of its steps.  The store,
\* the rows and the provider work again and again: the query, the
\* rendering of a row, an attempt answered with an id and the update each
\* succeed eventually when tried again and again.
Fairness ==
    /\ WF_vars(DaemonStep)
    /\ SF_vars(Cycle(Daemon))
    /\ SF_vars(StartInvite(Daemon))
    /\ SF_vars(AttemptWith(Daemon, "id"))
    /\ SF_vars(CommitOk(Daemon))

FairSpec == Init /\ [][NextDaemon]_vars /\ Fairness

\* ============================================ recipient of an invite email
\* os.getenv gives None for a variable that is not set, and may give ""
ForceAddresses == {None, "", "force@x"}
TestRecipients == {None, "", "test@x"}
\* invites.invited_email; it may be one of the configured addresses
Emails == {"a@x", "b@x", "force@x", "test@x"}

\* variant: test mode is looked at before the force override
DetermineRecipient_TestFirst(email) ==
    IF RESEND_TEST_MODE /\ ~Falsy(RESEND_TEST_RECIPIENT)
    THEN RESEND_TEST_RECIPIENT
    ELSE IF ~Falsy(RESEND_FORCE_TO_EMAIL)
    THEN RESEND_FORCE_TO_EMAIL
    ELSE email

\* email_sender._determine_recipient
DetermineRecipient(email) ==
    IF ~Falsy(RESEND_FORCE_TO_EMAIL)
    THEN RESEND_FORCE_TO_EMAIL
    ELSE IF RESEND_TEST_MODE
    THEN IF ~Falsy(RESEND_TEST_RECIPIENT)
         THEN RESEND_TEST_RECIPIENT
         ELSE email
    ELSE email

\* a Sender process with any recipient settings, before its first call
InitRecipient ==
    /\ DaemonStart
    /\ DRY_RUN \in BOOLEAN
    /\ API_KEY = TRUE
    /\ TEMPLATE_HTML = "<html>"
    /\ RESEND_FORCE_TO_EMAIL \in ForceAddresses
    /\ RESEND_TEST_MODE \in BOOLEAN
    /\ RESEND_TEST_RECIPIENT \in TestRecipients
    /\ user_email = None
    /\ to_address = None
    /\ DigestIdle
    /\ NamesFound
    /\ HookIdle

\* email_sender.send_invite_email is entered with the invite's address:
\* to_address = _determine_recipient(user_email)
SendInviteEmail(email) ==
    /\ user_email' = email
    /\ to_address' = DetermineRecipient(email)
    /\ UNCHANGED <<store, config, pc, shutdown_requested, mainVars, batchVars,
                   inviteVars, hist, digestVars, names, hookVars>>
    /\ UNCHANGED <<RESEND_FORCE_TO_EMAIL, RESEND_TEST_MODE,
                   RESEND_TEST_RECIPIENT>>

NextRecipient == \E email \in Emails : SendInviteEmail(email)

SpecRecipient == InitRecipient /\ [][NextRecipient]_vars

\* ============================================= the daemon and its lookups
\* one daemon process whose name queries meet any of the cases
InitLookup ==
    /\ DaemonStart
    /\ DRY_RUN \in BOOLEAN
    /\ API_KEY \in BOOLEAN
    /\ TEMPLATE_HTML \in {"", "<html>"}
    /\ RecipientIdle
    /\ DigestIdle
    /\ orgs \in Lookups
    /\ profiles \in Lookups
    /\ HookIdle

SpecLookup == InitLookup /\ [][NextDaemon]_vars

\* ===================================================== the signed endpoint
\* the replay window of the verification protocol, in seconds
REPLAY_WINDOW == 300

\* the endpoint's clock when the request arrives, in seconds
Now == 1000

\* the secrets a request can be signed with; the endpoint is configured
\* with the first or with none
Secrets == {"s1", "s2"}

\* timestamp headers: 301, 300 and 0 seconds old, 300 and 301 seconds
\* ahead, and one that is not an integer
TimestampHeaders == {"699", "700", "1000", "1300", "1301", "abc"}

\* the integer a timestamp header parses to
IntOf == ("699" :> 699) @@ ("700" :> 700) @@ ("1000" :> 1000)
         @@ ("1300" :> 1300) @@ ("1301" :> 1301)

Parseable(header) == header \in DOMAIN IntOf

Abs(n) == IF n < 0 THEN 0 - n ELSE n

\* HMAC-SHA256(secret, timestamp + "." + raw_body): equal signatures only
\* for equal secret, timestamp and body
Sign(secret, timestamp, raw_body) == <<secret, timestamp, raw_body>>

\* the work-item identifier embedded in the payload
ItemOf(raw_body) == raw_body

\* variant: only old timestamps are stale
Stale_PastOnly(timestamp) == Now - timestamp > REPLAY_WINDOW

\* step 3 of the verification protocol: |now - timestamp| > 300
Stale(timestamp) == Abs(Now - timestamp) > REPLAY_WINDOW

Rejected(reason) == [rejected |-> TRUE, reason |-> reason, item |-> NoItem]
Resolved(item) == [rejected |-> FALSE, reason |-> None, item |-> item]

\* authenticate_and_resolve, steps 1 to 4 and the item of step 5
AuthenticateAndResolve(raw_body, timestamp_header, signature_header, secret) ==
    IF Falsy(secret) THEN Rejected("ServiceMisconfigured")
    ELSE IF ~Parseable(timestamp_header) THEN Rejected("InvalidTimestamp")
    ELSE IF Stale(IntOf[timestamp_header]) THEN Rejected("StaleRequest")
    ELSE IF signature_header # Sign(secret, timestamp_header, raw_body)
         THEN Rejected("InvalidSignature")
    ELSE Resolved(ItemOf(raw_body))

\* every request: a body naming an invite, a timestamp header and the
\* signature somebody made with a secret over a timestamp and a body
Requests ==
    {[raw_body |-> b, timestamp_header |-> t,
      signature_header |-> Sign(k, st, sb)] :
        b \in Items, t \in TimestampHeaders, k \in Secrets,
        st \in TimestampHeaders, sb \in Items}

\* an endpoint with or without its secret has received one request; the
\* invites of the store are in any state
InitWebhook ==
    /\ status \in [Items -> {"pending", "accepted"}]
    /\ email_sent_at \in [Items -> BOOLEAN]
    /\ NoHistory
    /\ ProcessStart
    /\ DRY_RUN = FALSE
    /\ API_KEY = TRUE
    /\ TEMPLATE_HTML = "<html>"
    /\ RecipientIdle
    /\ DigestIdle
    /\ NamesFound
    /\ WEBHOOK_SECRET \in {None, "s1"}
    /\ request \in Requests
    /\ hook = [NotReceived EXCEPT !.pc = "received"]

\* the endpoint verifies the request: a rejection is answered at once, an
\* authentic request feeds the item it names to the Coordinator
HookAuthenticate ==
    /\ hook.pc = "received"
    /\ LET r == AuthenticateAndResolve(request.raw_body,
                                       request.timestamp_header,
                                       request.signature_header,
                                       WEBHOOK_SECRET)
       IN hook' = IF r.rejected
                  THEN [hook EXCEPT !.pc = "done", !.response = r.reason]
                  ELSE [hook EXCEPT !.pc = "offered", !.item = r.item,
                                    !.offered = @ + 1]
    /\ UNCHANGED <<store, config, pc, shutdown_requested, mainVars, batchVars,
                   inviteVars, hist, recipientVars, digestVars, names,
                   WEBHOOK_SECRET, request>>

\* step 5: an item that is not pending, or already marked as sent, is
\* acknowledged without work
HookResolve ==
    /\ hook.pc = "offered"
    /\ hook' = IF status[hook.item] # "pending"
                 THEN [hook EXCEPT !.pc = "done", !.response = "not_pending"]
               ELSE IF email_sent_at[hook.item]
                 THEN [hook EXCEPT !.pc = "done", !.response = "already_sent"]
               ELSE [hook EXCEPT !.pc = "processing"]
    /\ UNCHANGED <<store, config, pc, shutdown_requested, mainVars, batchVars,
                   inviteVars, hist, recipientVars, digestVars, names,
                   WEBHOOK_SECRET, request>>

\* what the Coordinator's work on the item can come to
Deliveries == {"sent", "send_failed", "commit_failed"}

\* the Coordinator renders, sends and commits; a send or store failure is
\* answered with a server error
HookDeliver(outcome) ==
    /\ hook.pc = "processing"
    /\ IF outcome = "sent"
       THEN /\ email_sent_at' = [email_sent_at EXCEPT ![hook.item] = TRUE]
            /\ hook' = [hook EXCEPT !.pc = "done", !.response = "sent",
                                    !.sends = @ + 1, !.writes = @ + 1]
       ELSE /\ hook' = [hook EXCEPT !.pc = "done",
                                    !.response = "server_error",
                                    !.sends = @ + 1]
            /\ UNCHANGED email_sent_at
    /\ UNCHANGED <<status, config, pc, shutdown_requested, mainVars, batchVars,
                   inviteVars, hist, recipientVars, digestVars, names,
                   WEBHOOK_SECRET, request>>

NextWebhook ==
    \/ HookAuthenticate
    \/ HookResolve
    \/ \E outcome \in Deliveries : HookDeliver(outcome)

SpecWebhook == InitWebhook /\ [][NextWebhook]_vars

\* ======================================================== the digest email
Projects == {"A", "B"}
EventTypes == {"chat_message_sent", "document_uploaded", "other"}
\* a digest event; mentions_user: user_id is in payload.mentioned_user_ids
Events == [project_id : Projects, event_type : EventTypes, mentions_user : BOOLEAN]

BoundedSeqs(S, n) == UNION {[1..k -> S] : k \in 0..n}

\* the elements of a sequence
Range(s) == {s[k] : k \in DOMAIN s}

\* variant: the events are not grouped, every event opens a section
ByProject_PerEvent(evs) == [k \in 1..Len(evs) |-> evs[k].project_id]

\* email_builder.build_digest_email: the keys of by_project, a dict, in the
\* order of their insertion
RECURSIVE ByProject(_)
ByProject(evs) ==
    IF evs = <<>> THEN <<>>
    ELSE LET before == ByProject(SubSeq(evs, 1, Len(evs) - 1))
             project_id == evs[Len(evs)].project_id
         IN IF project_id \in Range(before) THEN before
            ELSE Append(before, project_id)

\* by_project[project_id][event_type]
EventsOf(evs, project_id, event_type) ==
    SelectSeq(evs, LAMBDA e : e.project_id = project_id /\ e.event_type = event_type)

\* sum(1 for msg in messages if user_id in ...mentioned_user_ids)
Mentions(messages) == Len(SelectSeq(messages, LAMBDA e : e.mentions_user))

\* the line of a project's chat messages, if it has any
MessageRows(evs, project_id) ==
    LET messages == EventsOf(evs, project_id, "chat_message_sent")
    IN IF messages # <<>>
       THEN <<[kind |-> "messages", count |-> Len(messages),
               mentions |-> Mentions(messages)]>>
       ELSE <<>>

\* the line of a project's document uploads, if it has any
DocumentRows(evs, project_id) ==
    LET docs == EventsOf(evs, project_id, "document_uploaded")
    IN IF docs # <<>>
       THEN <<[kind |-> "documents", count |-> Len(docs), mentions |-> 0]>>
       ELSE <<>>

\* email_builder.render_project_card
RenderProjectCard(evs, project_id) ==
    LET rows == MessageRows(evs, project_id) \o DocumentRows(evs, project_id)
    IN [project_id |-> project_id,
        rows |-> IF rows = <<>>
                 THEN <<[kind |-> "no activity", count |-> 0, mentions |-> 0]>>
                 ELSE rows]

\* email_builder.build_digest_email: the text lines of one project
TextPart(evs, project_id) ==
    [project_id |-> project_id,
     rows |-> MessageRows(evs, project_id) \o DocumentRows(evs, project_id)]

\* variant: no test for an empty list of events
BuildDigestEmail_NoEmptyTest(evs) ==
    IF Falsy(DIGEST_TEMPLATE) THEN Returned(NoBody, NoBody)
    ELSE LET keys == ByProject(evs)
         IN Returned(
              Body([k \in 1..Len(keys) |-> RenderProjectCard(evs, keys[k])]),
              Body([k \in 1..Len(keys) |-> TextPart(evs, keys[k])]))

\* email_builder.build_digest_email
BuildDigestEmail(evs) ==
    IF evs = <<>> THEN Returned(NoBody, NoBody)
    ELSE IF Falsy(DIGEST_TEMPLATE) THEN Returned(NoBody, NoBody)
    ELSE LET keys == ByProject(evs)
         IN Returned(
              Body([k \in 1..Len(keys) |-> RenderProjectCard(evs, keys[k])]),
              Body([k \in 1..Len(keys) |-> TextPart(evs, keys[k])]))

\* the digest builder with or without its template, handed any events
InitDigest ==
    /\ DaemonStart
    /\ DRY_RUN = TRUE
    /\ API_KEY = TRUE
    /\ TEMPLATE_HTML = "<html>"
    /\ RecipientIdle
    /\ DIGEST_TEMPLATE \in {"", "<html>"}
    /\ events \in BoundedSeqs(Events, MaxEvents)
    /\ digest = NotBuilt
    /\ NamesFound
    /\ HookIdle

\* build_digest_email(events, ...) is called and returns
BuildDigest ==
    /\ ~digest.returned
    /\ digest' = BuildDigestEmail(events)
    /\ UNCHANGED <<DIGEST_TEMPLATE, events>>
    /\ UNCHANGED <<store, config, pc, shutdown_requested, mainVars, batchVars,
                   inviteVars, hist, recipientVars, names,
                   hookVars>>

NextDigest == BuildDigest

SpecDigest == InitDigest /\ [][NextDigest]_vars

\* ===================================== both programs with nothing to work on
\* invites that are no longer pending, or already marked as sent
StoreWithoutEligible ==
    /\ status \in [Items -> {"pending", "accepted"}]
    /\ email_sent_at \in [Items -> BOOLEAN]
    /\ GetPendingInvites = {}

\* no invite of the store is eligible; the digest builder is handed at most
\* one event
InitEmpty ==
    /\ StoreWithoutEligible
    /\ NoHistory
    /\ ProcessStart
    /\ DRY_RUN \in BOOLEAN
    /\ API_KEY = TRUE
    /\ TEMPLATE_HTML = "<html>"
    /\ RecipientIdle
    /\ DIGEST_TEMPLATE \in {"", "<html>"}
    /\ events \in BoundedSeqs(Events, 1)
    /\ digest = NotBuilt
    /\ NamesFound
    /\ HookIdle

NextEmpty ==
    \/ PollFetch(Daemon)
    \/ LoopExit(Daemon)
    \/ AfterCycle(Daemon)
    \/ SleepSlice(Daemon)
    \/ SliceDone(Daemon)
    \/ SleepEnd(Daemon)
    \/ Signal(Daemon)
    \/ \E i \in Items : Upstream(i)
    \/ BuildDigest

SpecEmpty == InitEmpty /\ [][NextEmpty]_vars

\* ================================================================ claims
\* what the claims speak about
InSender == {"send", "aftersend"}

\* this step is worker w calling send_invite_email
SenderInvoked(w) == pc[w] = "rendered" /\ pc'[w] \in InSender

\* this step is worker w starting to render the invite its loop is at
RenderStarted(w) == pc[w] = "item" /\ pc'[w] = "rendered"

\* worker w has finished process_invite on invite i in its current batch
Done(w, i) == \E k \in 1..Len(invites[w]) : invites[w][k] = i /\ k < idx[w]

\* workers whose process_invite holds a successful send of i not yet
\* followed by its store update
Uncommitted(i) ==
    {w \in Workers : pc[w] \in {"aftersend", "commit"} /\ Cur(w) = i /\ success[w]}

\* C1: for an invite whose email_sent_at is already non-null, process_invite
\* does not invoke the Sender, however the invite came to be offered to it.
C1_NoSendOnceSent ==
    [][\A w \in Workers : SenderInvoked(w) => ~email_sent_at[Cur(w)]]_vars

\* C2: email_sent_at is written only after the Sender reported success for
\* that invite in the same process_invite call: a worker is at the store
\* update only with success = True, and no invite has more successful
\* writes than successful Sender returns.
C2_CommitOnlyAfterSendSuccess ==
    /\ \A w \in Workers : pc[w] = "commit" => success[w]
    /\ \A i \in Items : hist[i].commits <= hist[i].accepted

\* C2 witness: an invite's email_sent_at has been written by a worker
C2_Witness == \E i \in Items : email_sent_at[i] /\ hist[i].commits = 1

\* C3 (as stated): the provider's send operation is invoked at most once
\* per transition of an invite's email_sent_at from null to non-null.  One
\* process_invite call makes at most one such transition, so within one
\* call the provider is invoked at most once.
C3_OncePerTransition == \A w \in Workers : call[w].provider <= 1

\* C3 (amended): within one process_invite call the provider's send
\* operation is invoked at most MAX_RETRIES times, and the call reaches the
\* write of email_sent_at only when the Sender reported success, which
\* outside dry run means that the last of these invocations returned an id
\* that is not None.
C3_BoundedPerTransition ==
    \A w \in Workers :
       /\ call[w].provider <= MAX_RETRIES
       /\ pc[w] = "commit" =>
            /\ success[w]
            /\ DRY_RUN => call[w].provider = 0
            /\ ~DRY_RUN => /\ call[w].provider >= 1
                           /\ call[w].last \in {"id", "emptyid"}

\* C3 witness: a call that was rate-limited, retried and then accepted is
\* about to write email_sent_at
C3_Witness ==
    \E w \in Workers : pc[w] = "commit" /\ call[w].provider = MAX_RETRIES

\* C4: when two coordinators raced on one pending invite (both hold it in
\* their batch, read as pending with email_sent_at null) and both have
\* completed it with the mark set and no commit failure, exactly one send
\* succeeded for it and email_sent_at was set once.
C4_RaceSingleSend ==
    \A i \in Items :
       ((\A w \in Workers : Done(w, i))
          /\ email_sent_at[i] /\ hist[i].anomalies = 0)
       => (hist[i].accepted = 1 /\ hist[i].commits = 1)

\* C5: process_invite starts rendering an invite only if, at that moment,
\* the invite's status is pending and its email_sent_at is null.
C5_EligibleAtProcessTime ==
    [][\A w \in Workers :
         RenderStarted(w) =>
            (status[Cur(w)] = "pending" /\ ~email_sent_at[Cur(w)])]_vars

\* C6: without a commit anomaly for an invite (a successful send whose
\* email_sent_at update failed), the invite has at most one successful send
\* (sends that really go to the provider: dry run is left aside).
C6_DuplicateOnlyAfterAnomaly ==
    ~DRY_RUN => \A i \in Items : hist[i].anomalies = 0 => hist[i].accepted <= 1

\* C7: after a successful send the email_sent_at update is attempted exactly
\* once (every successful send is matched by one update, done or pending),
\* and whether the update succeeds or fails process_invite returns True:
\* the for loop counts the invite as processed and moves on.
C7_CommitOnceThenSuccess ==
    /\ [](\A i \in Items :
            hist[i].accepted =
               hist[i].commits + hist[i].anomalies + Cardinality(Uncommitted(i)))
    /\ [][\A w \in Workers :
            (pc[w] = "commit" /\ pc'[w] # "commit") =>
               /\ pc'[w] = "item"
               /\ idx'[w] = idx[w] + 1
               /\ processed'[w] = processed[w] + 1
               /\ failed'[w] = failed[w]
               /\ hist'[Cur(w)].commits + hist'[Cur(w)].anomalies =
                    hist[Cur(w)].commits + hist[Cur(w)].anomalies + 1]_vars

\* C7 witness: a worker's first invite was sent, its update failed (the mark
\* is still null) and the invite was counted as processed
C7_Witness ==
    \E w \in Workers :
       /\ pc[w] = "item" /\ idx[w] = 2
       /\ processed[w] = 1 /\ failed[w] = 0
       /\ hist[invites[w][1]].anomalies = 1
       /\ hist[invites[w][1]].commits = 0

\* C8: when the Sender reported failure, process_invite returns False with
\* no store write, the invite is counted as failed, and the loop moves to
\* the next invite of the batch; a batch lists an invite once, so the invite
\* is not offered to the Sender again in that cycle.
C8_SendFailureLeavesItem ==
    /\ [](\A w \in Workers :
            \A j, k \in 1..Len(invites[w]) :
               invites[w][j] = invites[w][k] => j = k)
    /\ [][\A w \in Workers :
            (pc[w] = "aftersend" /\ ~success[w] /\ pc'[w] # "aftersend") =>
               /\ pc'[w] = "item"
               /\ idx'[w] = idx[w] + 1
               /\ invites'[w] = invites[w]
               /\ failed'[w] = failed[w] + 1
               /\ processed'[w] = processed[w]
               /\ status' = status
               /\ email_sent_at' = email_sent_at
               /\ hist' = hist]_vars

\* C8 witness: a worker's first invite failed in the Sender and is left
\* unmarked, the loop being at the second invite
C8_Witness ==
    \E w \in Workers :
       /\ pc[w] = "item" /\ idx[w] = 2 /\ Len(invites[w]) = 2
       /\ failed[w] = 1 /\ TEMPLATE_HTML # ""
       /\ ~email_sent_at[invites[w][1]]

C10_RateLimitedRetryBound ==
    \A w \in Workers :
       /\ pc[w] \in InSender => call[w].sleeps = call[w].provider
       /\ (pc[w] = "aftersend" /\ call[w].last = "ratelimit") =>
            (call[w].provider = MAX_RETRIES /\ ~success[w])

\* C10 witness: a send call has returned after a rate-limit answer
C10_Witness ==
    \E w \in Workers : pc[w] = "aftersend" /\ call[w].last = "ratelimit"

\* C11: when the provider answers an attempt with an error that is not a
\* rate limit, the Sender fails at once: the retry loop goes on only after
\* rate-limit answers, and a send call whose last answer is such an error
\* has returned False with exactly as many provider invocations as the
\* number of the attempt that got the error.
C11_ErrorFailsAtOnce ==
    \A w \in Workers :
       /\ pc[w] = "send" => call[w].last \in {None, "ratelimit"}
       /\ call[w].last = "error" =>
            /\ pc[w] = "aftersend"
            /\ ~success[w]
            /\ call[w].provider = attempt[w]

\* C11 witness: the error came at the second attempt, after a rate limit
C11_Witness ==
    \E w \in Workers :
       pc[w] = "aftersend" /\ call[w].last = "error" /\ call[w].provider = 2

\* C12: outside dry run the Sender reports success only when the provider's
\* answer carries a non-empty message id: an answer without id or with an
\* empty id is reported as failure and never reaches the email_sent_at
\* update.
C12_SuccessOnlyWithId ==
    ~DRY_RUN =>
       \A w \in Workers :
          (pc[w] \in {"aftersend", "commit"} /\ success[w]) => call[w].last = "id"

\* C13: in dry run a send call makes no provider invocation and returns
\* True, and process_invite goes on to the email_sent_at update as after a
\* real send: it returns True, with the mark set unless the update raised.
C13_DryRunCommits ==
    /\ [](DRY_RUN =>
            \A w \in Workers :
               /\ call[w].provider = 0
               /\ pc[w] # "send"
               /\ pc[w] = "aftersend" => success[w])
    /\ [][DRY_RUN =>
            \A w \in Workers :
               /\ (pc[w] = "aftersend" /\ pc'[w] # "aftersend") =>
                     pc'[w] = "commit"
               /\ (pc[w] = "commit" /\ pc'[w] # "commit") =>
                     /\ processed'[w] = processed[w] + 1
                     /\ failed'[w] = failed[w]
                     /\ \/ email_sent_at'[Cur(w)]
                        \/ hist'[Cur(w)].anomalies = hist[Cur(w)].anomalies + 1]_vars

\* C13 witness: in dry run a worker's first invite was counted as processed
\* and its mark is set
C13_Witness ==
    \E w \in Workers :
       /\ DRY_RUN /\ pc[w] = "item" /\ idx[w] = 2 /\ processed[w] = 1
       /\ email_sent_at[invites[w][1]] /\ hist[invites[w][1]].commits = 1

\* C14: whatever the force override (set or not), the test-mode flag, the
\* test recipient (set or not) and the invite's address, the address a send
\* call resolves is the force override if it is set; else the test
\* recipient if test mode is on and a test recipient is set; else the
\* invite's address.  Every call resolves it anew for its own address.
C14_RecipientPrecedence ==
    LET forced == RESEND_FORCE_TO_EMAIL \notin {None, ""}
        tested == RESEND_TEST_MODE /\ RESEND_TEST_RECIPIENT \notin {None, ""}
    IN /\ user_email = None => to_address = None
       /\ user_email # None =>
            /\ forced => to_address = RESEND_FORCE_TO_EMAIL
            /\ (~forced /\ tested) => to_address = RESEND_TEST_RECIPIENT
            /\ (~forced /\ ~tested) => to_address = user_email

\* C14 witness: both a force override and a test recipient are set, test
\* mode is on, and a call for another address resolved the force override
C14_Witness ==
    /\ RESEND_FORCE_TO_EMAIL = "force@x" /\ RESEND_TEST_MODE
    /\ RESEND_TEST_RECIPIENT = "test@x"
    /\ user_email = "a@x" /\ to_address = "force@x"

\* worker w is inside process_invite
InProgress == {"rendered", "send", "aftersend", "commit"}

\* C15: in a poll cycle with no shutdown request every invite of the
\* fetched batch is offered to process_invite once, in the batch's order,
\* whether earlier invites failed or raised: the batch is not changed while
\* it is worked on, the loop's position only moves on by one, every return
\* or exception is counted once (an exception as one failure), and at the
\* end of the cycle processed + failed is the size of the batch.
C15_EveryItemOfferedOnce ==
    /\ [](\A w \in Workers :
            /\ pc[w] \in InProgress \cup {"item"} =>
                  /\ processed[w] + failed[w] = idx[w] - 1
                  /\ idx[w] <= Len(invites[w]) + 1
            /\ pc[w] \in InProgress => idx[w] <= Len(invites[w])
            /\ (pc[w] = "aftercycle" /\ ~shutdown_requested[w]) =>
                  /\ idx[w] = Len(invites[w]) + 1
                  /\ processed[w] + failed[w] = Len(invites[w]))
    /\ [][\A w \in Workers :
            /\ pc[w] \in InProgress \cup {"item"} =>
                  /\ invites'[w] = invites[w]
                  /\ idx'[w] \in {idx[w], idx[w] + 1}
            /\ (pc[w] = "item" /\ pc'[w] = "item" /\ idx'[w] # idx[w]) =>
                  /\ failed'[w] = failed[w] + 1
                  /\ processed'[w] = processed[w]]_vars

\* C15 witness: in dry run with the template loaded, where only an
\* exception makes an invite fail, a cycle without shutdown ended with a
\* batch of two, one processed and one failed
C15_Witness ==
    \E w \in Workers :
       /\ DRY_RUN /\ TEMPLATE_HTML # ""
       /\ pc[w] = "aftercycle" /\ ~shutdown_requested[w]
       /\ Len(invites[w]) = 2 /\ processed[w] = 1 /\ failed[w] = 1

\* C16: once a worker's shutdown flag is set it is never cleared, the
\* worker starts no further invite (the for loop can only be left, the rest
\* of the batch is not offered) and no further poll cycle (the main loop
\* can only be left), while the invite in progress is not aborted: from
\* inside process_invite the worker only goes on inside it or returns to
\* the for loop.
C16_ShutdownStopsNewWork ==
    [][\A w \in Workers :
         shutdown_requested[w] =>
            /\ shutdown_requested'[w]
            /\ cycle_count'[w] = cycle_count[w]
            /\ invites'[w] \in {invites[w], <<>>}
            /\ (pc[w] = "loop" /\ pc'[w] # "loop") => pc'[w] = "exit"
            /\ (pc[w] = "item" /\ pc'[w] # "item") => pc'[w] = "aftercycle"
            /\ pc[w] = "item" => idx'[w] = idx[w]
            /\ pc[w] \in InProgress => pc'[w] \in InProgress \cup {"item"}
            /\ pc'[w] = "rendered" => pc[w] = "rendered"]_vars

\* C16 witness: the flag is set, the worker is at the store update of the
\* first invite of a batch of two
C16_Witness ==
    \E w \in Workers :
       /\ shutdown_requested[w] /\ pc[w] = "commit"
       /\ idx[w] = 1 /\ Len(invites[w]) = 2

\* invite i is pending with a null email_sent_at
Eligible(i) == status[i] = "pending" /\ ~email_sent_at[i]

\* C17: when the flag is set while the daemon is in its inter-cycle sleep,
\* no further slice is started: the slice in progress, of at most
\* SLEEP_CHUNK seconds, ends, the sleep loop is left whatever remains of
\* the poll interval, and the main loop is left without another fetch.
\* With the process scheduled fairly, a daemon whose flag is set always
\* exits in the end.
C17_ShutdownLeavesSleep ==
    /\ [][shutdown_requested[Daemon] =>
            /\ pc[Daemon] = "sleep" => pc'[Daemon] \in {"sleep", "loop"}
            /\ pc[Daemon] = "sleeping" =>
                  /\ pc'[Daemon] \in {"sleeping", "sleep", "loop"}
                  /\ sleep_remaining[Daemon] - sleep_remaining'[Daemon]
                        <= SLEEP_CHUNK
            /\ pc[Daemon] = "loop" =>
                  /\ pc'[Daemon] \in {"loop", "exit"}
                  /\ invites'[Daemon] = invites[Daemon]]_vars
    /\ (shutdown_requested[Daemon] ~> pc[Daemon] = "exit")

\* C17 witness: the flag was set during the first slice of a sleep whose
\* interval is longer than one slice
C17_Witness ==
    /\ shutdown_requested[Daemon] /\ pc[Daemon] = "sleeping"
    /\ sleep_remaining[Daemon] = PollInterval
    /\ PollInterval > SLEEP_CHUNK

\* C18: every poll cycle's batch holds all the invites that are eligible
\* at the fetch (pending, email_sent_at null), those that failed in earlier
\* cycles included.  With the template loaded and the Sender able to send
\* (dry run or an API key), and with the store, the rows and the provider
\* succeeding eventually, an eligible invite eventually has email_sent_at
\* set, unless it stops being pending or the daemon is told to shut down.
C18_EligibleEventuallySent ==
    /\ [][(pc[Daemon] = "loop" /\ pc'[Daemon] = "item") =>
             Range(invites'[Daemon]) = {i \in Items : Eligible(i)}]_vars
    /\ [][(pc[Daemon] = "loop" /\ pc'[Daemon] = "aftercycle"
              /\ {i \in Items : Eligible(i)} # {}) =>
             (invites'[Daemon] = <<>> /\ processed'[Daemon] = 0)]_vars
    /\ \A i \in Items :
          (Eligible(i) /\ TEMPLATE_HTML # "" /\ (DRY_RUN \/ API_KEY))
             ~> (email_sent_at[i] \/ status[i] # "pending"
                   \/ shutdown_requested[Daemon])

\* C18 witness: outside dry run, in a second cycle whose batch still held
\* both invites, the first of them has now been sent and marked
C18_Witness ==
    /\ ~DRY_RUN /\ cycle_count[Daemon] = 2
    /\ pc[Daemon] = "item" /\ idx[Daemon] = 2 /\ Len(invites[Daemon]) = 2
    /\ processed[Daemon] = 1
    /\ email_sent_at[invites[Daemon][1]]
    /\ hist[invites[Daemon][1]].accepted = 1

\* C19: a poll cycle whose fetch finds no eligible invite renders nothing,
\* sends nothing, writes nothing to the store and ends with the counts
\* (0, 0); build_digest_email called with no events returns (None, None).
C19_EmptyInputNoWork ==
    /\ [][\A w \in Workers :
            (pc[w] = "loop" /\ pc'[w] # "loop" /\ ~shutdown_requested[w]
               /\ GetPendingInvites = {}) =>
               /\ pc'[w] = "aftercycle"
               /\ invites'[w] = <<>>
               /\ processed'[w] = 0 /\ failed'[w] = 0
               /\ bodies' = bodies /\ call' = call /\ hist' = hist
               /\ status' = status /\ email_sent_at' = email_sent_at]_vars
    /\ [][\A w \in Workers :
            (pc[w] = "aftercycle" /\ invites[w] = <<>>) =>
               pc'[w] \in {"aftercycle", "sleep", "exit"}]_vars
    /\ []((digest.returned /\ events = <<>>) =>
            (digest.html_body.none /\ digest.text_body.none
               /\ digest.html_body.sections = <<>>
               /\ digest.text_body.sections = <<>>))

\* C19 witness: the daemon ended a cycle on an empty batch, and the digest
\* builder, its template loaded, returned from a call without events
C19_Witness ==
    /\ pc[Daemon] = "aftercycle" /\ cycle_count[Daemon] = 1
    /\ invites[Daemon] = <<>> /\ processed[Daemon] = 0 /\ failed[Daemon] = 0
    /\ DIGEST_TEMPLATE # "" /\ events = <<>> /\ digest.returned

\* position of the first event of a project
FirstSeen(project_id) ==
    CHOOSE n \in DOMAIN events :
       /\ events[n].project_id = project_id
       /\ \A m \in 1..(n - 1) : events[m].project_id # project_id

\* number of the events of a project and a type (with mentions only)
CountOf(project_id, event_type, mentioned) ==
    Cardinality({n \in DOMAIN events :
                   /\ events[n].project_id = project_id
                   /\ events[n].event_type = event_type
                   /\ mentioned => events[n].mentions_user})

\* what a section shows for a kind of line: its count and mentions, 0 when
\* it has no such line
Shown(section, kind) ==
    IF \E r \in DOMAIN section.rows : section.rows[r].kind = kind
    THEN LET r == CHOOSE r \in DOMAIN section.rows : section.rows[r].kind = kind
         IN <<section.rows[r].count, section.rows[r].mentions>>
    ELSE <<0, 0>>

\* the sections are one per project of the events, in first-seen order,
\* with the counts of the events
SectionsMatch(sections) ==
    /\ {sections[k].project_id : k \in DOMAIN sections} =
          {events[n].project_id : n \in DOMAIN events}
    /\ \A j, k \in DOMAIN sections :
          j < k => FirstSeen(sections[j].project_id)
                     < FirstSeen(sections[k].project_id)
    /\ \A k \in DOMAIN sections :
          LET p == sections[k].project_id
          IN /\ Shown(sections[k], "messages") =
                  <<CountOf(p, "chat_message_sent", FALSE),
                    CountOf(p, "chat_message_sent", TRUE)>>
             /\ Shown(sections[k], "documents") =
                  <<CountOf(p, "document_uploaded", FALSE), 0>>

\* the example: events A/chat, B/doc, A/doc
IsExample ==
    /\ Len(events) = 3
    /\ events[1].project_id = "A" /\ events[1].event_type = "chat_message_sent"
    /\ events[2].project_id = "B" /\ events[2].event_type = "document_uploaded"
    /\ events[3].project_id = "A" /\ events[3].event_type = "document_uploaded"

ExampleMatches(sections) ==
    /\ Len(sections) = 2
    /\ sections[1].project_id = "A"
    /\ Shown(sections[1], "messages")[1] = 1
    /\ Shown(sections[1], "documents")[1] = 1
    /\ sections[2].project_id = "B"
    /\ Shown(sections[2], "messages")[1] = 0
    /\ Shown(sections[2], "documents")[1] = 1

C23_RetryAfterRateLimit ==
    \A w \in Workers :
       /\ pc[w] = "send" =>
            /\ call[w].provider = attempt[w] - 1
            /\ call[w].provider > 0 => call[w].last = "ratelimit"
       /\ (call[w].last = "ratelimit" /\ call[w].provider < MAX_RETRIES) =>
            pc[w] = "send"
       /\ (pc[w] \in {"aftersend", "commit"} /\ call[w].last = "id") =>
            /\ success[w]
            /\ attempt[w] \in 1..MAX_RETRIES
            /\ call[w].provider = attempt[w]

\* C23 witness: two rate limits, then an id at the third attempt
C23_Witness ==
    \E w \in Workers :
       /\ pc[w] = "aftersend" /\ call[w].last = "id" /\ success[w]
       /\ call[w].provider = 3

\* C24: every provider invocation comes right after a sleep of its own:
\* THROTTLE_DELAY before attempt 1 and THROTTLE_DELAY * n before attempt
\* n > 1, whatever the earlier answers; so after n invocations a call has
\* slept 1, 3, 6 times THROTTLE_DELAY (half a second), 6 when it used up
\* its MAX_RETRIES = 3 attempts.
C24_ThrottleBeforeEveryAttempt ==
    \A w \in Workers :
       /\ call[w].sleeps = call[w].provider
       /\ call[w].provider \in 0..3
       /\ call[w].provider = 0 => call[w].slept = 0
       /\ call[w].provider = 1 => call[w].slept = THROTTLE_DELAY
       /\ call[w].provider = 2 => call[w].slept = THROTTLE_DELAY + THROTTLE_DELAY * 2
       /\ call[w].provider = 3 =>
            /\ call[w].slept = THROTTLE_DELAY + THROTTLE_DELAY * 2 + THROTTLE_DELAY * 3
            /\ call[w].slept = 6

\* C24 witness: a call that was rate-limited three times
C24_Witness ==
    \E w \in Workers :
       /\ call[w].provider = 3 /\ call[w].last = "ratelimit"
       /\ call[w].slept = 6

\* C25: a poll cycle that ends at once, the fetch having raised (or found
\* nothing), sends nothing and writes nothing; after a cycle the daemon
\* goes to its sleep, or exits if the flag is set, and it exits only with
\* the flag set; with the process scheduled fairly the end of a cycle is
\* followed by the head of the main loop, where the next cycle starts,
\* unless the flag is set.
C25_FetchErrorKeepsDaemon ==
    /\ [][(pc[Daemon] = "loop" /\ pc'[Daemon] = "aftercycle") =>
             /\ invites'[Daemon] = <<>>
             /\ status' = status /\ email_sent_at' = email_sent_at
             /\ hist' = hist /\ call' = call /\ bodies' = bodies]_vars
    /\ [][(pc[Daemon] = "aftercycle" /\ pc'[Daemon] # "aftercycle") =>
             pc'[Daemon] = (IF shutdown_requested[Daemon] THEN "exit" ELSE "sleep")]_vars
    /\ [][(pc[Daemon] # "exit" /\ pc'[Daemon] = "exit") =>
             shutdown_requested[Daemon]]_vars
    /\ [][(pc[Daemon] = "loop" /\ pc'[Daemon] # "loop"
              /\ ~shutdown_requested[Daemon]) =>
             pc'[Daemon] \in {"item", "aftercycle"}]_vars
    /\ (pc[Daemon] = "aftercycle"
          ~> (pc[Daemon] = "loop" \/ shutdown_requested[Daemon]))

\* C25 witness: a cycle ended on an empty batch while an invite was
\* eligible, that is, its fetch raised; the flag is not set
C25_Witness ==
    /\ pc[Daemon] = "aftercycle" /\ invites[Daemon] = <<>>
    /\ ~shutdown_requested[Daemon]
    /\ \E i \in Items : Eligible(i)

\* the display strings the email must carry for what the two lookups met
ExpectedOrg == IF orgs = "found" THEN "Acme" ELSE "CapMatch"
ExpectedInviter ==
    IF profiles = "found" THEN "Ann Lee" ELSE "a member of your team"

\* C21: whatever the organization lookup and the inviter lookup meet (a
\* name, a row without name, no row, a store error, no id on the invite),
\* process_invite can go on to render the invite it is at; with the
\* template loaded the bodies it renders carry the name found or else the
\* fallback display string, and its next move after rendering is the call
\* of the Sender.
C21_LookupsNeverBlock ==
    /\ []((pc[Daemon] = "item" /\ idx[Daemon] <= Len(invites[Daemon])
            /\ ~shutdown_requested[Daemon]) =>
             ENABLED StartInvite(Daemon))
    /\ []((pc[Daemon] \in InProgress /\ ~Falsy(TEMPLATE_HTML)) =>
             bodies[Daemon] =
               <<HtmlBody(TEMPLATE_HTML, ExpectedOrg, ExpectedInviter),
                 TextBody(ExpectedOrg, ExpectedInviter)>>)
    /\ [][(pc[Daemon] = "item" /\ pc'[Daemon] = "rendered") =>
             (Falsy(TEMPLATE_HTML) \/ ~RenderFailed(bodies'[Daemon]))]_vars
    /\ [][(pc[Daemon] = "rendered" /\ pc'[Daemon] # "rendered"
              /\ ~Falsy(TEMPLATE_HTML)) =>
             pc'[Daemon] \in InSender]_vars

\* C21 witness: the organization query raised and the invite names no
\* inviter; the Sender was called with both fallbacks in the bodies and has
\* invoked the provider
C21_Witness ==
    /\ orgs = "error" /\ profiles = "absent"
    /\ pc[Daemon] = "send" /\ call[Daemon].provider >= 1
    /\ bodies[Daemon] = <<"<html>CapMatch/a member of your team",
                          "join CapMatch by a member of your team">>

\* how the received request was made, read off its signature
WrongSecret == request.signature_header[1] # WEBHOOK_SECRET
BodyAltered == request.signature_header[3] # request.raw_body
OutOfWindow ==
    /\ Parseable(request.timestamp_header)
    /\ \/ IntOf[request.timestamp_header] < Now - 300
       \/ IntOf[request.timestamp_header] > Now + 300
CorrectlySigned ==
    /\ ~Falsy(WEBHOOK_SECRET)
    /\ request.signature_header[1] = WEBHOOK_SECRET
    /\ request.signature_header[2] = request.timestamp_header
    /\ request.signature_header[3] = request.raw_body
Rejections == {"ServiceMisconfigured", "InvalidTimestamp", "StaleRequest",
               "InvalidSignature"}
Verified == hook.pc \notin {"idle", "received"}

\* C22: a request signed with a wrong secret, or whose body is not the one
\* signed, or whose timestamp is more than 300 seconds from now (behind or
\* ahead), is answered with a rejection, feeds nothing to the Coordinator,
\* sends nothing and writes nothing to the store; a correctly signed
\* request with a timestamp at most 300 seconds from now is not rejected
\* and feeds one item to the Coordinator; no request feeds more than one.
C22_WebhookVerification ==
    /\ []((Verified /\ (WrongSecret \/ BodyAltered \/ OutOfWindow)) =>
             /\ hook.pc = "done"
             /\ hook.response \in Rejections
             /\ hook.offered = 0 /\ hook.sends = 0 /\ hook.writes = 0)
    /\ [][(hook.pc = "received"
              /\ (WrongSecret \/ BodyAltered \/ OutOfWindow)) =>
             (status' = status /\ email_sent_at' = email_sent_at)]_vars
    /\ []((Verified /\ CorrectlySigned
            /\ Parseable(request.timestamp_header) /\ ~OutOfWindow) =>
             /\ hook.response \notin Rejections
             /\ hook.offered = 1
             /\ hook.item = request.raw_body)
    /\ [](hook.offered <= 1)

\* C22 witness: a correctly signed request that is 301 seconds old was
\* rejected as stale, nothing fed, sent or written
C22_Witness ==
    /\ CorrectlySigned
    /\ request.timestamp_header = "699"
    /\ hook.pc = "done" /\ hook.response = "StaleRequest"
    /\ hook.offered = 0 /\ hook.sends = 0 /\ hook.writes = 0
====
